---- MODULE Spec2Model ----
(***************************************************************************)
(* Peg solitaire on the 7x7 English board: the board model, the move       *)
(* generator and the three search loops of the repository                  *)
(*   test.py  BFS  (deque + hash set, goal: one peg in the centre),        *)
(*   bfs.py   BFS  (lists, goal: one peg anywhere),                        *)
(*   HDFS.py  DFS  (stack + heuristic order, goal: one peg anywhere).      *)
(* Boards are Python lists of row lists; rows live in a heap so that       *)
(* copying and aliasing are visible.  Coordinates are Python's 0-based     *)
(* (row, col); TLA+ sequences are 1-based, hence the +1 in Cell.           *)
(***************************************************************************)
EXTENDS Integers, Sequences, FiniteSets, TLC

\* -------------------------------------------------------------------------
\* Bounds of the verification
\* -------------------------------------------------------------------------

\* complete runs start from positions with at most this many pegs
MaxStartPegs == 7

\* a run stops dequeuing after this many nodes (only the run from the full
\* initial board is long enough to meet it)
MaxSteps == 120

\* an interactive game is followed for this many accepted moves
MaxGameMoves == 3

\* -------------------------------------------------------------------------
\* Hole topology (module level of HDFS.py, bfs.py and test.py)
\* -------------------------------------------------------------------------

TEMPLATE ==
  << <<" ", " ", "x", "x", "x">>,
     <<" ", " ", "x", "x", "x">>,
     <<"x", "x", "x", "x", "x", "x", "x">>,
     <<"x", "x", "x", "o", "x", "x", "x">>,
     <<"x", "x", "x", "x", "x", "x", "x">>,
     <<" ", " ", "x", "x", "x">>,
     <<" ", " ", "x", "x", "x">> >>

ROWS == 7

COLS == 7

Range(s) == {s[i] : i \in DOMAIN s}

\* abs(n)
Abs(n) == IF n < 0 THEN -n ELSE n

\* a function over 1..n as an explicit sequence
AsSeq(f) == f \o <<>>

\* the cells of one template row, in enumerate() order
RowCells(r) == [c1 \in 1..Len(TEMPLATE[r + 1]) |-> <<r, c1 - 1>>]

RECURSIVE TemplateCells(_)
\* the cells of the first n template rows, row-major
TemplateCells(n) ==
  IF n = 0 THEN <<>> ELSE TemplateCells(n - 1) \o RowCells(n - 1)

\* the test with "x" alone
IsHoleChar_x_only(p) == TEMPLATE[p[1] + 1][p[2] + 1] = "x"

\* ch in ("x", "o")
IsHoleChar(p) == TEMPLATE[p[1] + 1][p[2] + 1] \in {"x", "o"}

\* index_to_pos[idx] = (r, c); idx counts the hole characters from 1
index_to_pos == SelectSeq(TemplateCells(Len(TEMPLATE)), IsHoleChar)

pos_to_index ==
  [p \in Range(index_to_pos) |->
     CHOOSE i \in DOMAIN index_to_pos : index_to_pos[i] = p]

NUM_HOLES == Len(index_to_pos)

HoleIds == 1..NUM_HOLES

\* the module-level board: -1 everywhere, then 1 for "x" and 0 for "o"
InitialBoard ==
  [r1 \in 1..ROWS |->
     [c1 \in 1..COLS |->
        IF c1 <= Len(TEMPLATE[r1]) /\ TEMPLATE[r1][c1] = "x" THEN 1
        ELSE IF c1 <= Len(TEMPLATE[r1]) /\ TEMPLATE[r1][c1] = "o" THEN 0
        ELSE -1]]

\* DIRECTIONS without the jump to the right
DIRECTIONS_three == << <<-1, 0>>, <<1, 0>>, <<0, -1>> >>

\* the directions in the order of the hole each one jumps to
DIRECTIONS_by_target == << <<-1, 0>>, <<0, -1>>, <<0, 1>>, <<1, 0>> >>

DIRECTIONS == << <<-1, 0>>, <<1, 0>>, <<0, -1>>, <<0, 1>> >>

\* -------------------------------------------------------------------------
\* Pure functions over a board value (a 7-sequence of 7-sequences)
\* -------------------------------------------------------------------------

Cell(b, r, c) == b[r + 1][c + 1]

\* the (hole, direction) pairs in the order the two nested loops visit them
LoopOrder ==
  AsSeq([k \in 1..(NUM_HOLES * Len(DIRECTIONS)) |->
           <<((k - 1) \div Len(DIRECTIONS)) + 1,
             ((k - 1) % Len(DIRECTIONS)) + 1>>])

\* the test of legal_moves for the peg at hole hd[1] and direction hd[2]
CanJump(b, hd) ==
  LET r == index_to_pos[hd[1]][1]
      c == index_to_pos[hd[1]][2]
      mid_r == r + DIRECTIONS[hd[2]][1]
      mid_c == c + DIRECTIONS[hd[2]][2]
      to_r == r + 2 * DIRECTIONS[hd[2]][1]
      to_c == c + 2 * DIRECTIONS[hd[2]][2]
  IN /\ Cell(b, r, c) = 1
     /\ 0 <= to_r /\ to_r < ROWS /\ 0 <= to_c /\ to_c < COLS
     /\ Cell(b, mid_r, mid_c) = 1
     /\ Cell(b, to_r, to_c) = 0

\* (frm, pos_to_index[(to_r, to_c)])
JumpOf(hd) ==
  <<hd[1],
    pos_to_index[<<index_to_pos[hd[1]][1] + 2 * DIRECTIONS[hd[2]][1],
                   index_to_pos[hd[1]][2] + 2 * DIRECTIONS[hd[2]][2]>>]>>

\* list of legal moves as (from_idx, to_idx), in index_to_pos.items() order
legal_moves(b) ==
  LET hits == SelectSeq(LoopOrder, LAMBDA hd : CanJump(b, hd))
  IN AsSeq([i \in 1..Len(hits) |-> JumpOf(hits[i])])

RECURSIVE SumOnes(_, _)
SumOnes(row, n) ==
  IF n = 0 THEN 0 ELSE SumOnes(row, n - 1) + (IF row[n] = 1 THEN 1 ELSE 0)

RECURSIVE SumRows(_, _)
SumRows(b, n) ==
  IF n = 0 THEN 0 ELSE SumRows(b, n - 1) + SumOnes(b[n], Len(b[n]))

peg_count(b) == SumRows(b, Len(b))

\* the jump on a board value: from and the jumped cell emptied, to filled
ApplyMove(b, mv) ==
  LET r1 == index_to_pos[mv[1]][1]
      c1 == index_to_pos[mv[1]][2]
      r2 == index_to_pos[mv[2]][1]
      c2 == index_to_pos[mv[2]][2]
      mid_r == (r1 + r2) \div 2
      mid_c == (c1 + c2) \div 2
      b1 == [b EXCEPT ![r1 + 1][c1 + 1] = 0]
      b2 == [b1 EXCEPT ![mid_r + 1][mid_c + 1] = 0]
  IN [b2 EXCEPT ![r2 + 1][c2 + 1] = 1]

\* -------------------------------------------------------------------------
\* Python objects: lists in a heap, tuples as values, equality
\* -------------------------------------------------------------------------

\* A board object is the sequence of the heap addresses of its 7 row lists;
\* heap[a] is the content of the row list at address a.

\* the board value a list object holds
Deref(h, ref) == AsSeq([i \in 1..Len(ref) |-> h[ref[i]]])

\* current_board[r][c]
HCell(h, ref, r, c) == h[ref[r + 1]][c + 1]

\* the assignment with row and column exchanged: new_board[c][r] = v
SetItem_swapped(h, ref, r, c, v) == [h EXCEPT ![ref[c + 1]][r + 1] = v]

\* new_board[r][c] = v
SetItem(h, ref, r, c, v) == [h EXCEPT ![ref[r + 1]][c + 1] = v]

FirstIdx(ref, a) == CHOOSE i \in 1..Len(ref) : ref[i] = a /\ \A j \in 1..(i - 1) : ref[j] # a

\* a shallow copy, list(board): a new outer list over the same row lists
deepcopy_shallow(h, ref) == [heap |-> h, ref |-> ref]

\* copy.deepcopy(board): a new outer list and a new copy of every row (a row
\* object met twice is copied once, as deepcopy's memo does)
deepcopy(h, ref) ==
  [heap |-> h \o [i \in 1..Len(ref) |-> h[ref[i]]],
   ref |-> AsSeq([i \in 1..Len(ref) |-> Len(h) + FirstIdx(ref, ref[i])])]

\* [row[:] for row in board]
RowSlices(h, ref) ==
  [heap |-> h \o [i \in 1..Len(ref) |-> h[ref[i]]],
   ref |-> AsSeq([i \in 1..Len(ref) |-> Len(h) + i])]

\* a key that keeps only the first four rows of the board
serialize_top(b) ==
  [t |-> "tuple",
   v |-> AsSeq([i \in 1..4 |-> AsSeq([j \in 1..Len(b[i]) |-> b[i][j]])])]

\* tuple(tuple(cell for cell in row) for row in board_state)
serialize(b) ==
  [t |-> "tuple",
   v |-> AsSeq([i \in 1..Len(b) |-> AsSeq([j \in 1..Len(b[i]) |-> b[i][j]])])]

ListObj(ref) == [t |-> "list", ref |-> ref]

\* a treenodes instance, known by its identity
NodeObj(id) == [t |-> "treenodes", id |-> id]

\* a == b in Python: a tuple never equals a list or an object, lists compare
\* by content, treenodes (no __eq__) by identity
PyEq(h, a, b) ==
  IF a.t # b.t THEN FALSE
  ELSE IF a.t = "tuple" THEN a.v = b.v
  ELSE IF a.t = "list" THEN Deref(h, a.ref) = Deref(h, b.ref)
  ELSE a.id = b.id

\* a in seq, for a Python list seq
PyIn(h, a, seq) == \E i \in 1..Len(seq) : PyEq(h, a, seq[i])

\* -------------------------------------------------------------------------
\* Expansion
\* -------------------------------------------------------------------------

RECURSIVE ChildLoop(_, _, _)
\* the loop of generate_child_boards, acc being the heap and the children
\* made so far: the next move is the one after the children already made
ChildLoop(acc, cur, possible_moves) ==
  IF Len(acc.children) = Len(possible_moves) THEN acc
  ELSE
    LET n == Len(acc.children) + 1
        from_idx == possible_moves[n][1]
        to_idx == possible_moves[n][2]
        new_board == deepcopy(acc.heap, cur)
        r1 == index_to_pos[from_idx][1]
        c1 == index_to_pos[from_idx][2]
        r2 == index_to_pos[to_idx][1]
        c2 == index_to_pos[to_idx][2]
        mid_r == (r1 + r2) \div 2
        mid_c == (c1 + c2) \div 2
        h1 == SetItem(new_board.heap, new_board.ref, r1, c1, 0)
        h2 == SetItem(h1, new_board.ref, mid_r, mid_c, 0)
        h3 == SetItem(h2, new_board.ref, r2, c2, 1)
    IN ChildLoop([heap |-> h3,
                  children |-> Append(acc.children,
                                      [board |-> new_board.ref,
                                       move |-> <<from_idx, to_idx>>])],
                 cur, possible_moves)

\* generate_child_boards of bfs.py and HDFS.py: (new_board, move) pairs
generate_child_boards(h, cur) ==
  ChildLoop([heap |-> h, children |-> <<>>], cur, legal_moves(Deref(h, cur)))

\* the test of generate_successor_states for loop position k, on the board
\* object cur as the heap h holds it
CanJumpAt(h, cur, k) == CanJump(Deref(h, cur), LoopOrder[k])

RECURSIVE SuccLoop(_, _, _)
\* generate_successor_states from loop position k on, acc being the heap and
\* the successor list so far: the next position whose test passes makes a
\* successor, the positions before it change nothing
SuccLoop(acc, cur, k) ==
  LET hits == {j \in k..Len(LoopOrder) : CanJumpAt(acc.heap, cur, j)}
  IN IF hits = {} THEN acc
     ELSE
       LET j == CHOOSE m \in hits : \A o \in hits : m <= o
           from_hole_index == LoopOrder[j][1]
           from_row == index_to_pos[from_hole_index][1]
           from_col == index_to_pos[from_hole_index][2]
           jumped_row == from_row + DIRECTIONS[LoopOrder[j][2]][1]
           jumped_col == from_col + DIRECTIONS[LoopOrder[j][2]][2]
           destination_row == from_row + 2 * DIRECTIONS[LoopOrder[j][2]][1]
           destination_col == from_col + 2 * DIRECTIONS[LoopOrder[j][2]][2]
           new_board_state == deepcopy(acc.heap, cur)
           h1 == SetItem(new_board_state.heap, new_board_state.ref,
                         from_row, from_col, 0)
           h2 == SetItem(h1, new_board_state.ref, jumped_row, jumped_col, 0)
           h3 == SetItem(h2, new_board_state.ref,
                         destination_row, destination_col, 1)
           to_hole_index == pos_to_index[<<destination_row, destination_col>>]
       IN SuccLoop([heap |-> h3,
                    children |->
                      Append(acc.children,
                             [board |-> new_board_state.ref,
                              move |-> <<from_hole_index, to_hole_index>>])],
                   cur, j + 1)

\* generate_successor_states of test.py: (from_hole, to_hole, new_board_state)
generate_successor_states(h, cur) ==
  SuccLoop([heap |-> h, children |-> <<>>], cur, 1)

\* -------------------------------------------------------------------------
\* Frontier insertion and heuristic order
\* -------------------------------------------------------------------------

\* reading the head of the queue without removing it
pop0_peek(fr) == fr

\* frontier.pop(0) and frontier_queue.popleft(): what is left of the queue
pop0(fr) == Tail(fr)

\* frontier.pop(): what is left of the stack
pop(fr) == SubSeq(fr, 1, Len(fr) - 1)

\* add_to_frontier without its membership tests
add_to_frontier_bfs_always(h, state, ex, fr) == Append(fr, state)

\* add_to_frontier without the test on the frontier
add_to_frontier_bfs_explored_only(h, state, ex, fr) ==
  IF ~PyIn(h, state, ex) THEN Append(fr, state) ELSE fr

\* add_to_frontier putting the state at the head of the queue
add_to_frontier_bfs_front(h, state, ex, fr) ==
  IF ~PyIn(h, state, ex) /\ ~PyIn(h, state, fr) THEN <<state>> \o fr ELSE fr

\* add_to_frontier of bfs.py; explored holds tuples, frontier holds lists
add_to_frontier_bfs(h, state, ex, fr) ==
  IF ~PyIn(h, state, ex) /\ ~PyIn(h, state, fr) THEN Append(fr, state) ELSE fr

\* add_to_frontier of HDFS.py; state is a treenodes, checked holds tuples
add_to_frontier_hdfs(h, state, checked, fr) ==
  IF ~PyIn(h, state, checked) THEN Append(fr, state) ELSE fr

\* key(a) < key(b) for the sort key 1/(len(legal_moves(x.board)) + 1),
\* a and b being the two move counts
KeyLess(a, b) == b + 1 < a + 1

\* sorted(children, key=...) without reversed
heuristic_order_unreversed(h, ns, children) ==
  LET n == Len(children)
      cnt == AsSeq([i \in 1..n |->
                      Len(legal_moves(Deref(h, ns[children[i]].board)))])
      rank == AsSeq([i \in 1..n |->
                       Cardinality({j \in 1..n :
                                      \/ KeyLess(cnt[j], cnt[i])
                                      \/ (cnt[j] = cnt[i] /\ j < i)}) + 1])
  IN AsSeq([k \in 1..n |-> children[CHOOSE i \in 1..n : rank[i] = k]])

\* sorted(children, key=number of legal moves): ascending, stable, not
\* reversed
heuristic_order_by_count(h, ns, children) ==
  LET n == Len(children)
      cnt == AsSeq([i \in 1..n |->
                      Len(legal_moves(Deref(h, ns[children[i]].board)))])
      rank == AsSeq([i \in 1..n |->
                       Cardinality({j \in 1..n :
                                      \/ cnt[j] < cnt[i]
                                      \/ (cnt[j] = cnt[i] /\ j < i)}) + 1])
  IN AsSeq([k \in 1..n |-> children[CHOOSE i \in 1..n : rank[i] = k]])

\* reversed(sorted(children, key=...)) over treenodes ids; sorted is stable
heuristic_order(h, ns, children) ==
  LET n == Len(children)
      cnt == AsSeq([i \in 1..n |->
                      Len(legal_moves(Deref(h, ns[children[i]].board)))])
      rank == AsSeq([i \in 1..n |->
                       Cardinality({j \in 1..n :
                                      \/ KeyLess(cnt[j], cnt[i])
                                      \/ (cnt[j] = cnt[i] /\ j < i)}) + 1])
      sorted == AsSeq([k \in 1..n |->
                         children[CHOOSE i \in 1..n : rank[i] = k]])
  IN AsSeq([k \in 1..n |-> sorted[n + 1 - k]])

RECURSIVE PathTo(_, _)
\* print_path: the nodes from the root down to node id (0 is None)
PathTo(ns, id) ==
  IF id = 0 THEN <<>> ELSE Append(PathTo(ns, ns[id].parent), id)

\* -------------------------------------------------------------------------
\* Start positions
\* -------------------------------------------------------------------------

\* a game from the initial board to one peg in the centre
SolutionLine ==
  << <<5, 17>>, <<8, 10>>, <<1, 9>>, <<3, 1>>, <<10, 8>>, <<7, 9>>,
     <<11, 3>>, <<13, 11>>, <<16, 4>>, <<1, 9>>, <<14, 16>>, <<16, 4>>,
     <<18, 6>>, <<3, 11>>, <<20, 18>>, <<18, 6>>, <<28, 16>>, <<21, 23>>,
     <<23, 9>>, <<4, 16>>, <<16, 18>>, <<25, 11>>, <<6, 18>>, <<27, 25>>,
     <<24, 26>>, <<33, 25>>, <<18, 30>>, <<31, 33>>, <<33, 25>>,
     <<26, 24>>, <<29, 17>> >>

RECURSIVE Replay(_, _)
\* the board after moves, played from b
Replay(b, moves) ==
  IF moves = <<>> THEN b ELSE Replay(ApplyMove(b, Head(moves)), Tail(moves))

Successors(b) == {ApplyMove(b, m) : m \in Range(legal_moves(b))}

RECURSIVE Closure(_, _)
Closure(seen, fresh) ==
  IF fresh = {} THEN seen
  ELSE LET new == UNION {Successors(b) : b \in fresh} \ seen
       IN Closure(seen \cup new, new)

\* every board that legal moves reach from b, b included
Reachable(b) == Closure({b}, {b})

\* the positions of the late game: what can follow the solution line once
\* MaxStartPegs pegs are left
LateGame ==
  Reachable(Replay(InitialBoard,
                   SubSeq(SolutionLine, 1,
                          peg_count(InitialBoard) - MaxStartPegs)))

StartBoards == {InitialBoard} \cup LateGame

\* -------------------------------------------------------------------------
\* State
\* -------------------------------------------------------------------------

VARIABLES
  prog,             \* which script runs: "test", "bfs" or "hdfs"
  heap,             \* row lists by address
  board,            \* the module-level board (a list of row addresses)
  status,           \* Initializing, Running, Solved, Exhausted
  frontier_queue,   \* test.py: deque of (board_state, move_sequence)
  visited_boards,   \* test.py: set of serialized boards
  frontier,         \* bfs.py: list of boards; HDFS.py: list of treenodes
  explored,         \* bfs.py: list of tuples; HDFS.py: list of treenodes
  chechked_boards,  \* HDFS.py: list of tuples
  nodes,            \* HDFS.py: every treenodes created, by identity
  result,           \* what the run returned or printed at its end
  dequeued,         \* history: the boards removed from the frontier, in order
  lastExp,          \* history: the last expansion (parent and children)
  executed,         \* history: the number of steps the script has executed
  state,            \* soloT.py: the module-level dict hole id -> peg present
  previous,         \* history: what the previous call of the search did
  accepted          \* history: the number of jumps make_move has accepted

vars == <<prog, heap, board, status, frontier_queue, visited_boards, frontier,
          explored, chechked_boards, nodes, result, dequeued, lastExp,
          executed, state, previous, accepted>>

Progs == {"test", "bfs", "hdfs"}

Terminal == {"Solved", "Exhausted"}

NoResult == [tag |-> "unset", moves |-> <<>>, path |-> <<>>]

NoExp == [parent |-> <<>>, before |-> <<>>, children |-> <<>>]

InitOn(starts) ==
  /\ prog \in Progs
  /\ heap \in starts
  /\ board = AsSeq([i \in 1..ROWS |-> i])
  /\ status = "Initializing"
  /\ frontier_queue = <<>>
  /\ visited_boards = {}
  /\ frontier = <<>>
  /\ explored = <<>>
  /\ chechked_boards = <<>>
  /\ nodes = <<>>
  /\ result = NoResult
  /\ dequeued = <<>>
  /\ lastExp = NoExp
  /\ executed = 0
  /\ state = <<>>
  /\ previous = <<>>
  /\ accepted = 0

Init == InitOn(StartBoards)

\* -------------------------------------------------------------------------
\* test.py BFS
\* -------------------------------------------------------------------------

TestBFS_Start ==
  /\ prog = "test" /\ status = "Initializing"
  /\ executed' = executed + 1
  /\ UNCHANGED <<state, previous, accepted>>
  /\ LET initial_board_state == deepcopy(heap, board)
         initial_board_key ==
           serialize(Deref(initial_board_state.heap, initial_board_state.ref))
     IN /\ heap' = initial_board_state.heap
        /\ frontier_queue' =
             << [board |-> initial_board_state.ref, moves |-> <<>>] >>
        /\ visited_boards' = {initial_board_key}
  /\ status' = "Running"
  /\ UNCHANGED <<prog, board, frontier, explored, chechked_boards, nodes,
                 result, dequeued, lastExp>>

\* a move list that keeps the last jump only
PlusMove_last_only(current_moves, move) == <<move>>

\* a move list that records the jump twice
PlusMove_twice(current_moves, move) == current_moves \o <<move, move>>

\* current_moves + [move]: a new list, current_moves left as it is
PlusMove(current_moves, move) == Append(current_moves, move)

RECURSIVE TestEnqueue(_, _, _, _)
\* the for loop of BFS from the n-th successor on, acc being the visited set
\* and the queue so far
TestEnqueue(acc, h, succ, n) ==
  IF n > Len(succ) THEN acc
  ELSE
    LET board_key == serialize(Deref(h, succ[n].board))
    IN IF board_key \notin acc.visited
       THEN TestEnqueue([visited |-> acc.visited \cup {board_key},
                         queue |-> Append(acc.queue,
                                          [board |-> succ[n].board,
                                           moves |-> PlusMove(acc.moves,
                                                              succ[n].move)]),
                         moves |-> acc.moves],
                        h, succ, n + 1)
       ELSE TestEnqueue(acc, h, succ, n + 1)

\* a goal test that accepts the last peg anywhere
TestGoal_anywhere(b) == peg_count(b) = 1

\* the goal test of test.py: one peg left, located at (3, 3)
TestGoal(b) == peg_count(b) = 1 /\ Cell(b, 3, 3) = 1

\* one pass of `while frontier_queue:` (or the return None after it)
TestBFS_Iter ==
  /\ prog = "test" /\ status = "Running" /\ Len(dequeued) < MaxSteps
  /\ executed' = executed + 1
  /\ UNCHANGED <<state, previous, accepted>>
  /\ IF frontier_queue = <<>>
     THEN /\ status' = "Exhausted"
          /\ result' = [tag |-> "None", moves |-> <<>>, path |-> <<>>]
          /\ UNCHANGED <<heap, frontier_queue, visited_boards, dequeued, lastExp>>
     ELSE
       LET current == Head(frontier_queue)
           current_board_state == Deref(heap, current.board)
           gen == generate_successor_states(heap, current.board)
           enq == TestEnqueue([visited |-> visited_boards,
                               queue |-> pop0(frontier_queue),
                               moves |-> current.moves],
                              gen.heap, gen.children, 1)
       IN /\ dequeued' = Append(dequeued, current_board_state)
          /\ IF TestGoal(current_board_state)
             THEN /\ status' = "Solved"
                  /\ result' = [tag |-> "moves", moves |-> current.moves,
                                path |-> <<>>]
                  /\ frontier_queue' = pop0(frontier_queue)
                  /\ lastExp' = NoExp
                  /\ UNCHANGED <<heap, visited_boards>>
             ELSE /\ heap' = gen.heap
                  /\ frontier_queue' = enq.queue
                  /\ visited_boards' = enq.visited
                  /\ lastExp' = [parent |-> current.board,
                                 before |-> current_board_state,
                                 children |-> gen.children]
                  /\ UNCHANGED <<status, result>>
  /\ UNCHANGED <<prog, board, frontier, explored, chechked_boards, nodes>>

\* -------------------------------------------------------------------------
\* bfs.py BFS
\* -------------------------------------------------------------------------

\* a goal test that also accepts a board with no legal move
PrimaryGoal_or_stuck(b) == peg_count(b) = 1 \/ legal_moves(b) = <<>>

\* the goal test of bfs.py and HDFS.py: peg_count(node) == 1
PrimaryGoal(b) == peg_count(b) = 1

BfsBFS_Start ==
  /\ prog = "bfs" /\ status = "Initializing"
  /\ executed' = executed + 1
  /\ UNCHANGED <<state, previous, accepted>>
  /\ LET first_copy == RowSlices(heap, board)
     IN /\ heap' = first_copy.heap
        /\ frontier' = add_to_frontier_bfs(first_copy.heap,
                                           ListObj(first_copy.ref),
                                           explored, frontier)
  /\ status' = "Running"
  /\ UNCHANGED <<prog, board, frontier_queue, visited_boards, explored,
                 chechked_boards, nodes, result, dequeued, lastExp>>

RECURSIVE BfsEnqueue(_, _, _, _, _)
\* the for loop of BFS from the n-th child on, fr being the frontier so far
BfsEnqueue(fr, h, children, ex, n) ==
  IF n > Len(children) THEN fr
  ELSE
    LET serialized_child == serialize(Deref(h, children[n].board))
    IN IF ~PyIn(h, serialized_child, ex)
       THEN BfsEnqueue(add_to_frontier_bfs(h, ListObj(children[n].board),
                                           ex, fr),
                       h, children, ex, n + 1)
       ELSE BfsEnqueue(fr, h, children, ex, n + 1)

\* one pass of `while True:` of bfs.py
BfsBFS_Iter ==
  /\ prog = "bfs" /\ status = "Running" /\ Len(dequeued) < MaxSteps
  /\ executed' = executed + 1
  /\ UNCHANGED <<state, previous, accepted>>
  /\ IF frontier = <<>>
     THEN /\ status' = "Exhausted"
          /\ result' = [tag |-> "no solution", moves |-> <<>>, path |-> <<>>]
          /\ UNCHANGED <<heap, frontier, explored, dequeued, lastExp>>
     ELSE
       LET node == Head(frontier)
           node_board == Deref(heap, node.ref)
           explored1 == Append(explored, serialize(node_board))
           gen == generate_child_boards(heap, node.ref)
       IN /\ explored' = explored1
          /\ dequeued' = Append(dequeued, node_board)
          /\ IF PrimaryGoal(node_board)
             THEN /\ status' = "Solved"
                  /\ result' = [tag |-> "win", moves |-> <<>>, path |-> <<>>]
                  /\ frontier' = pop0(frontier)
                  /\ lastExp' = NoExp
                  /\ UNCHANGED heap
             ELSE /\ heap' = gen.heap
                  /\ frontier' = BfsEnqueue(pop0(frontier), gen.heap,
                                            gen.children, explored1, 1)
                  /\ lastExp' = [parent |-> node.ref,
                                 before |-> node_board,
                                 children |-> gen.children]
                  /\ UNCHANGED <<status, result>>
  /\ UNCHANGED <<prog, board, frontier_queue, visited_boards, chechked_boards,
                 nodes>>

\* -------------------------------------------------------------------------
\* HDFS.py DFS
\* -------------------------------------------------------------------------

\* a treenodes that drops its parent
treenodes_orphan(b, parent, move) == [board |-> b, parent |-> 0, move |-> move]

\* treenodes(board, parent, move); parent 0 and move <<>> stand for None
treenodes(b, parent, move) == [board |-> b, parent |-> parent, move |-> move]

DFS_Start ==
  /\ prog = "hdfs" /\ status = "Initializing"
  /\ executed' = executed + 1
  /\ UNCHANGED <<state, previous, accepted>>
  /\ LET first_copy == RowSlices(heap, board)
         id == Len(nodes) + 1
     IN /\ heap' = first_copy.heap
        /\ nodes' = Append(nodes, treenodes(first_copy.ref, 0, <<>>))
        /\ frontier' = add_to_frontier_hdfs(first_copy.heap, NodeObj(id),
                                            chechked_boards, frontier)
        /\ chechked_boards' =
             Append(chechked_boards,
                    serialize(Deref(first_copy.heap, first_copy.ref)))
  /\ status' = "Running"
  /\ UNCHANGED <<prog, board, frontier_queue, visited_boards, explored,
                 result, dequeued, lastExp>>

RECURSIVE DfsEnqueue(_, _, _, _, _, _, _)
\* the for loop of DFS from the n-th ordered child on, fr being the frontier
\* so far
DfsEnqueue(fr, h, ns, children, ex, checked, n) ==
  IF n > Len(children) THEN fr
  ELSE
    LET serialized_child == serialize(Deref(h, ns[children[n]].board))
    IN IF ~PyIn(h, serialized_child, ex)
       THEN DfsEnqueue(add_to_frontier_hdfs(h, NodeObj(children[n]),
                                            checked, fr),
                       h, ns, children, ex, checked, n + 1)
       ELSE DfsEnqueue(fr, h, ns, children, ex, checked, n + 1)

\* one pass of `while True:` of HDFS.py
DFS_Iter ==
  /\ prog = "hdfs" /\ status = "Running" /\ Len(dequeued) < MaxSteps
  /\ executed' = executed + 1
  /\ UNCHANGED <<state, previous, accepted>>
  /\ IF frontier = <<>>
     THEN /\ status' = "Exhausted"
          /\ result' = [tag |-> "no solution", moves |-> <<>>, path |-> <<>>]
          /\ UNCHANGED <<heap, frontier, explored, chechked_boards, nodes,
                         dequeued, lastExp>>
     ELSE
       LET node == frontier[Len(frontier)]
           popped == pop(frontier)
           node_board == Deref(heap, nodes[node.id].board)
           explored1 == Append(explored, node)
           checked1 == Append(chechked_boards, serialize(node_board))
           gen == generate_child_boards(heap, nodes[node.id].board)
           made == AsSeq([i \in 1..Len(gen.children) |->
                            treenodes(gen.children[i].board, node.id,
                                      gen.children[i].move)])
           nodes1 == nodes \o made
           children == heuristic_order(gen.heap, nodes1,
                         AsSeq([i \in 1..Len(made) |-> Len(nodes) + i]))
       IN /\ explored' = explored1
          /\ chechked_boards' = checked1
          /\ dequeued' = Append(dequeued, node_board)
          /\ IF PrimaryGoal(node_board)
             THEN /\ status' = "Solved"
                  /\ result' = [tag |-> "path", moves |-> <<>>,
                                path |-> PathTo(nodes, node.id)]
                  /\ frontier' = popped
                  /\ lastExp' = NoExp
                  /\ UNCHANGED <<heap, nodes>>
             ELSE /\ heap' = gen.heap
                  /\ nodes' = nodes1
                  /\ frontier' = DfsEnqueue(popped, gen.heap, nodes1,
                                            children, explored1, checked1, 1)
                  /\ lastExp' = [parent |-> nodes[node.id].board,
                                 before |-> node_board,
                                 children |-> gen.children]
                  /\ UNCHANGED <<status, result>>
  /\ UNCHANGED <<prog, board, frontier_queue, visited_boards>>

\* -------------------------------------------------------------------------
\* Specifications
\* -------------------------------------------------------------------------

Next ==
  \/ TestBFS_Start
  \/ TestBFS_Iter
  \/ BfsBFS_Start
  \/ BfsBFS_Iter
  \/ DFS_Start
  \/ DFS_Iter

\* every script, from the initial board and from every late-game position
Spec == Init /\ [][Next]_vars

\* the scripts as shipped: from the initial board only
InitFull == InitOn({InitialBoard})

SpecFull == InitFull /\ [][Next]_vars

InitLate == InitOn(LateGame)

\* the script stands at a step: the first one, or a pass of its loop
CanStep ==
  status = "Initializing" \/ (status = "Running" /\ Len(dequeued) < MaxSteps)

\* the interpreter executes the step the script stands at
Executes == CanStep /\ executed' = executed + 1

\* every script; the interpreter does not stop while the script has a step
\* to take
SpecLive == Init /\ [][Next]_vars /\ WF_executed(Executes)

\* complete runs only
SpecLate == InitLate /\ [][Next]_vars

\* -------------------------------------------------------------------------
\* A second call of the search in the same process
\* -------------------------------------------------------------------------

\* BFS() or DFS() is called again, after the first call has returned or has
\* been interrupted between two passes of its loop: the locals of test.py
\* BFS are gone, the module-level lists of bfs.py and HDFS.py are as the
\* first call left them
CallAgain ==
  /\ prog \in Progs /\ previous = <<>>
  /\ status \in Terminal \/ (status = "Running" /\ dequeued # <<>>)
  /\ previous' = [dequeued |-> dequeued, status |-> status,
                  tag |-> result.tag, moves |-> result.moves]
  /\ status' = "Initializing"
  /\ dequeued' = <<>>
  /\ result' = NoResult
  /\ lastExp' = NoExp
  /\ frontier_queue' = <<>>
  /\ visited_boards' = {}
  /\ UNCHANGED <<prog, heap, board, frontier, explored, chechked_boards,
                 nodes, executed, state, accepted>>

NextTwice == Next \/ CallAgain

\* complete runs, the search being called a second time
SpecTwice == InitLate /\ [][NextTwice]_vars

\* -------------------------------------------------------------------------
\* The two breadth-first scripts run one after the other on the same board
\* -------------------------------------------------------------------------

\* one of test.py and bfs.py has ended, or has been stopped after MaxSteps
\* passes of its loop, and the other one is started, as a new process, on the
\* same board: nothing of the first process is left but the record of what
\* it dequeued and reported
RunOther ==
  /\ prog \in {"test", "bfs"} /\ previous = <<>>
  /\ status \in Terminal \/ (status = "Running" /\ Len(dequeued) = MaxSteps)
  /\ previous' = [prog |-> prog, dequeued |-> dequeued, status |-> status,
                  tag |-> result.tag, moves |-> result.moves]
  /\ prog' = IF prog = "test" THEN "bfs" ELSE "test"
  /\ heap' = SubSeq(heap, 1, ROWS)
  /\ status' = "Initializing"
  /\ frontier_queue' = <<>>
  /\ visited_boards' = {}
  /\ frontier' = <<>>
  /\ explored' = <<>>
  /\ chechked_boards' = <<>>
  /\ nodes' = <<>>
  /\ result' = NoResult
  /\ dequeued' = <<>>
  /\ lastExp' = NoExp
  /\ executed' = 0
  /\ UNCHANGED <<board, state, accepted>>

NextBoth == Next \/ RunOther

SpecBoth == Init /\ [][NextBoth]_vars

\* -------------------------------------------------------------------------
\* The interactive games soloT.py (state dict) and soloT2.py (board lists)
\* -------------------------------------------------------------------------

\* the integers a player types, or a caller passes, as frm and to
Inputs == (-1)..(NUM_HOLES + 1)

\* soloT.py: state[i] = (TEMPLATE[r][c] == "x")
InitialState ==
  AsSeq([i \in 1..NUM_HOLES |->
           TEMPLATE[index_to_pos[i][1] + 1][index_to_pos[i][2] + 1] = "x"])

\* the test of legal_moves of soloT.py for the peg at hole hd[1] and
\* direction hd[2]
CanJump_soloT(st, hd) ==
  LET r == index_to_pos[hd[1]][1]
      c == index_to_pos[hd[1]][2]
      mid == <<r + DIRECTIONS[hd[2]][1], c + DIRECTIONS[hd[2]][2]>>
      dest == <<r + 2 * DIRECTIONS[hd[2]][1], c + 2 * DIRECTIONS[hd[2]][2]>>
  IN /\ st[hd[1]]
     /\ mid \in DOMAIN pos_to_index /\ dest \in DOMAIN pos_to_index
     /\ st[pos_to_index[mid]] /\ ~st[pos_to_index[dest]]

\* legal_moves() of soloT.py, in state.items() order
legal_moves_soloT(st) ==
  LET hits == SelectSeq(LoopOrder, LAMBDA hd : CanJump_soloT(st, hd))
  IN AsSeq([i \in 1..Len(hits) |-> JumpOf(hits[i])])

\* is_valid_move of soloT.py
is_valid_move_soloT(st, frm, to) ==
  IF frm \notin DOMAIN st \/ to \notin DOMAIN st THEN FALSE
  ELSE IF ~st[frm] \/ st[to] THEN FALSE
  ELSE
    LET r1 == index_to_pos[frm][1]
        c1 == index_to_pos[frm][2]
        r2 == index_to_pos[to][1]
        c2 == index_to_pos[to][2]
        dr == r2 - r1
        dc == c2 - c1
    IN IF Abs(dr) = 2 /\ dc = 0
       THEN LET mid == <<r1 + dr \div 2, c1>>
            IN IF mid \notin DOMAIN pos_to_index THEN FALSE
               ELSE st[pos_to_index[mid]]
       ELSE IF Abs(dc) = 2 /\ dr = 0
       THEN LET mid == <<r1, c1 + dc \div 2>>
            IN IF mid \notin DOMAIN pos_to_index THEN FALSE
               ELSE st[pos_to_index[mid]]
       ELSE FALSE

\* make_move leaving the peg jumped over where it is
make_move_soloT_keep_mid(st, frm, to) ==
  IF ~is_valid_move_soloT(st, frm, to) THEN [ret |-> FALSE, state |-> st]
  ELSE [ret |-> TRUE, state |-> [[st EXCEPT ![frm] = FALSE] EXCEPT ![to] = TRUE]]

\* make_move of soloT.py: the value returned and the dict it leaves
make_move_soloT(st, frm, to) ==
  IF ~is_valid_move_soloT(st, frm, to) THEN [ret |-> FALSE, state |-> st]
  ELSE
    LET r1 == index_to_pos[frm][1]
        c1 == index_to_pos[frm][2]
        r2 == index_to_pos[to][1]
        c2 == index_to_pos[to][2]
        mid_idx == pos_to_index[<<(r1 + r2) \div 2, (c1 + c2) \div 2>>]
    IN [ret |-> TRUE,
        state |-> [[[st EXCEPT ![frm] = FALSE]
                        EXCEPT ![mid_idx] = FALSE]
                        EXCEPT ![to] = TRUE]]

\* is_valid_move without its test of the peg jumped over
is_valid_move_soloT2_nomid(h, ref, frm, to) ==
  IF frm \notin DOMAIN index_to_pos \/ to \notin DOMAIN index_to_pos
  THEN FALSE
  ELSE
    LET r1 == index_to_pos[frm][1]
        c1 == index_to_pos[frm][2]
        r2 == index_to_pos[to][1]
        c2 == index_to_pos[to][2]
    IN IF HCell(h, ref, r1, c1) # 1 \/ HCell(h, ref, r2, c2) # 0 THEN FALSE
       ELSE \/ (Abs(r2 - r1) = 2 /\ c2 - c1 = 0)
            \/ (Abs(c2 - c1) = 2 /\ r2 - r1 = 0)

\* is_valid_move of soloT2.py
is_valid_move_soloT2(h, ref, frm, to) ==
  IF frm \notin DOMAIN index_to_pos \/ to \notin DOMAIN index_to_pos
  THEN FALSE
  ELSE
    LET r1 == index_to_pos[frm][1]
        c1 == index_to_pos[frm][2]
        r2 == index_to_pos[to][1]
        c2 == index_to_pos[to][2]
        dr == r2 - r1
        dc == c2 - c1
    IN IF HCell(h, ref, r1, c1) # 1 \/ HCell(h, ref, r2, c2) # 0 THEN FALSE
       ELSE IF Abs(dr) = 2 /\ dc = 0
       THEN HCell(h, ref, r1 + dr \div 2, c1) = 1
       ELSE IF Abs(dc) = 2 /\ dr = 0
       THEN HCell(h, ref, r1, c1 + dc \div 2) = 1
       ELSE FALSE

\* make_move of soloT2.py: the value returned and the heap it leaves
make_move_soloT2(h, ref, frm, to) ==
  IF ~is_valid_move_soloT2(h, ref, frm, to) THEN [ret |-> FALSE, heap |-> h]
  ELSE
    LET r1 == index_to_pos[frm][1]
        c1 == index_to_pos[frm][2]
        r2 == index_to_pos[to][1]
        c2 == index_to_pos[to][2]
        mid_r == (r1 + r2) \div 2
        mid_c == (c1 + c2) \div 2
        h1 == SetItem(h, ref, r1, c1, 0)
        h2 == SetItem(h1, ref, mid_r, mid_c, 0)
    IN [ret |-> TRUE, heap |-> SetItem(h2, ref, r2, c2, 1)]

\* peg_count() of soloT.py: sum(state.values())
peg_count_soloT(st) == Len(SelectSeq(st, LAMBDA occupied : occupied))

Games == {"soloT", "soloT2"}

\* a loop head that stops on no legal move whatever the number of pegs
LoopHead_stuck_first(pegs, moves) ==
  IF moves = <<>> THEN "GameOver"
  ELSE IF pegs = 1 THEN "Won"
  ELSE "Playing"

\* the head of `while True:`: the win message on one peg, the game-over
\* message on no legal move, the prompt otherwise
LoopHead(pegs, moves) ==
  IF pegs = 1 THEN "Won"
  ELSE IF moves = <<>> THEN "GameOver"
  ELSE "Playing"

\* a game is followed from its start and from the prompt reached when this
\* many moves of SolutionLine have been entered
GameStarts == {0, peg_count(InitialBoard) - MaxStartPegs}

RECURSIVE Entered_soloT(_, _)
\* soloT.py after the commands "<frm> <to>" of moves, entered one after the
\* other as long as main_loop prompts: the dict and the number of calls of
\* make_move that returned True
Entered_soloT(acc, moves) ==
  IF \/ moves = <<>>
     \/ LoopHead(peg_count_soloT(acc.state),
                 legal_moves_soloT(acc.state)) # "Playing"
  THEN acc
  ELSE LET made == make_move_soloT(acc.state, Head(moves)[1], Head(moves)[2])
       IN Entered_soloT([state |-> made.state,
                         accepted |-> acc.accepted
                                        + (IF made.ret THEN 1 ELSE 0)],
                        Tail(moves))

RECURSIVE Entered_soloT2(_, _, _)
\* the same for soloT2.py, whose board is the list ref of the heap acc.heap
Entered_soloT2(acc, ref, moves) ==
  IF \/ moves = <<>>
     \/ LoopHead(peg_count(Deref(acc.heap, ref)),
                 legal_moves(Deref(acc.heap, ref))) # "Playing"
  THEN acc
  ELSE LET made == make_move_soloT2(acc.heap, ref,
                                    Head(moves)[1], Head(moves)[2])
       IN Entered_soloT2([heap |-> made.heap,
                          accepted |-> acc.accepted
                                         + (IF made.ret THEN 1 ELSE 0)],
                         ref, Tail(moves))

\* soloT.py at the prompt after the first k moves of SolutionLine
Start_soloT(k) ==
  Entered_soloT([state |-> InitialState, accepted |-> 0],
                SubSeq(SolutionLine, 1, k))

\* soloT2.py at the prompt after the first k moves of SolutionLine
Start_soloT2(k) ==
  Entered_soloT2([heap |-> InitialBoard, accepted |-> 0],
                 AsSeq([i \in 1..ROWS |-> i]), SubSeq(SolutionLine, 1, k))

InitGame ==
  /\ prog \in Games
  /\ board = (IF prog = "soloT2" THEN AsSeq([i \in 1..ROWS |-> i]) ELSE <<>>)
  /\ \E k \in GameStarts :
       /\ heap = (IF prog = "soloT2" THEN Start_soloT2(k).heap ELSE <<>>)
       /\ state = (IF prog = "soloT" THEN Start_soloT(k).state ELSE <<>>)
       /\ accepted = (IF prog = "soloT" THEN Start_soloT(k).accepted
                      ELSE Start_soloT2(k).accepted)
  /\ status = "Playing"
  /\ frontier_queue = <<>>
  /\ visited_boards = {}
  /\ frontier = <<>>
  /\ explored = <<>>
  /\ chechked_boards = <<>>
  /\ nodes = <<>>
  /\ result = NoResult
  /\ dequeued = <<>>
  /\ lastExp = NoExp
  /\ executed = 0
  /\ previous = <<>>

\* the pegs and the legal moves main_loop sees
GamePegs ==
  IF prog = "soloT" THEN peg_count_soloT(state)
  ELSE peg_count(Deref(heap, board))

GameMoves ==
  IF prog = "soloT" THEN legal_moves_soloT(state)
  ELSE legal_moves(Deref(heap, board))

\* the game is followed further: near its start, or in its late part
Followed ==
  accepted < MaxGameMoves \/ \E k \in GameStarts \ {0} : accepted >= k

\* the player enters "<frm> <to>" and main_loop calls make_move(frm, to)
Game_MakeMove ==
  /\ prog \in Games /\ status = "Playing"
  /\ Followed
  /\ \E frm, to \in Inputs :
       IF prog = "soloT"
       THEN LET made == make_move_soloT(state, frm, to)
            IN /\ state' = made.state
               /\ result' = [tag |-> made.ret, moves |-> <<frm, to>>,
                             path |-> <<>>]
               /\ accepted' = accepted + (IF made.ret THEN 1 ELSE 0)
               /\ UNCHANGED heap
       ELSE LET made == make_move_soloT2(heap, board, frm, to)
            IN /\ heap' = made.heap
               /\ result' = [tag |-> made.ret, moves |-> <<frm, to>>,
                             path |-> <<>>]
               /\ accepted' = accepted + (IF made.ret THEN 1 ELSE 0)
               /\ UNCHANGED state
  /\ status' = "Answered"
  /\ UNCHANGED <<prog, board, frontier_queue, visited_boards, frontier,
                 explored, chechked_boards, nodes, dequeued, lastExp,
                 executed, previous>>

\* what a player can enter besides two integers: the commands of main_loop,
\* a line it does not know, two tokens that str.isdigit accepts and int
\* refuses (a superscript digit), and the end of the input
Commands ==
  {"quit", "exit", "help", "showids", "board", "moves", "unknown",
   "superscript digits", "end of input"}

\* where main_loop is after the command cmd: it has printed something and
\* goes round, or it has left the loop
AfterCommand(cmd) ==
  IF cmd \in {"quit", "exit"} THEN "Quit"
  ELSE IF cmd = "end of input" THEN "Interrupted"
  ELSE IF cmd = "superscript digits" THEN "Crashed"
  ELSE "Shown"

\* the player enters something that is not a move: no branch of main_loop
\* for it touches the board
Game_Command ==
  /\ prog \in Games /\ status = "Playing"
  /\ \E cmd \in Commands :
       /\ status' = AfterCommand(cmd)
       /\ result' = [tag |-> cmd, moves |-> <<>>, path |-> <<>>]
  /\ UNCHANGED <<prog, heap, board, state, frontier_queue, visited_boards,
                 frontier, explored, chechked_boards, nodes, dequeued,
                 lastExp, executed, previous, accepted>>

\* main_loop has handled the command and goes round
Game_Loop ==
  /\ prog \in Games /\ status \in {"Answered", "Shown"}
  /\ status' = LoopHead(GamePegs, GameMoves)
  /\ result' = NoResult
  /\ UNCHANGED <<prog, heap, board, state, frontier_queue, visited_boards,
                 frontier, explored, chechked_boards, nodes, dequeued,
                 lastExp, executed, previous, accepted>>

NextGame == Game_MakeMove \/ Game_Command \/ Game_Loop

\* a game of soloT.py or soloT2.py, any integers being entered
SpecGame == InitGame /\ [][NextGame]_vars

\* -------------------------------------------------------------------------
\* soloT.py and soloT2.py side by side, fed the same commands
\* -------------------------------------------------------------------------

Pair == "soloT and soloT2"

InitPair ==
  /\ prog = Pair
  /\ board = AsSeq([i \in 1..ROWS |-> i])
  /\ \E k \in GameStarts :
       /\ heap = Start_soloT2(k).heap
       /\ state = Start_soloT(k).state
       /\ accepted = Start_soloT(k).accepted
  /\ status = "Playing"
  /\ frontier_queue = <<>>
  /\ visited_boards = {}
  /\ frontier = <<>>
  /\ explored = <<>>
  /\ chechked_boards = <<>>
  /\ nodes = <<>>
  /\ result = NoResult
  /\ dequeued = <<>>
  /\ lastExp = NoExp
  /\ executed = 0
  /\ previous = <<>>

\* the same "<frm> <to>" is entered in both games; the answers are kept as
\* the pair (answer of soloT.py, answer of soloT2.py) and accepted counts the
\* moves soloT.py has accepted
Pair_MakeMove ==
  /\ prog = Pair /\ status = "Playing"
  /\ Followed
  /\ \E frm, to \in Inputs :
       LET soloT == make_move_soloT(state, frm, to)
           soloT2 == make_move_soloT2(heap, board, frm, to)
       IN /\ state' = soloT.state
          /\ heap' = soloT2.heap
          /\ result' = [tag |-> <<soloT.ret, soloT2.ret>>,
                        moves |-> <<frm, to>>, path |-> <<>>]
          /\ accepted' = accepted + (IF soloT.ret THEN 1 ELSE 0)
  /\ status' = "Answered"
  /\ UNCHANGED <<prog, board, frontier_queue, visited_boards, frontier,
                 explored, chechked_boards, nodes, dequeued, lastExp,
                 executed, previous>>

\* both loops go round: they prompt again, or stop with the same message, or
\* one of them stops where the other one does not
Pair_Loop ==
  /\ prog = Pair /\ status = "Answered"
  /\ LET soloT == LoopHead(peg_count_soloT(state), legal_moves_soloT(state))
         soloT2 == LoopHead(peg_count(Deref(heap, board)),
                            legal_moves(Deref(heap, board)))
     IN status' = (IF soloT = soloT2 THEN soloT ELSE "Differ")
  /\ result' = NoResult
  /\ UNCHANGED <<prog, heap, board, state, frontier_queue, visited_boards,
                 frontier, explored, chechked_boards, nodes, dequeued,
                 lastExp, executed, previous, accepted>>

NextPair == Pair_MakeMove \/ Pair_Loop

SpecPair == InitPair /\ [][NextPair]_vars

\* -------------------------------------------------------------------------
\* Vocabulary of the properties
\* -------------------------------------------------------------------------

\* the board the run started from: the module-level board
Start == Deref(heap, board)

\* the moves the rules of the game allow on b, stated over hole ids: a peg
\* at f, an empty hole at t two cells away along one axis, a peg between
RuleMoves(b) ==
  {m \in HoleIds \X HoleIds :
     LET pf == index_to_pos[m[1]]
         pt == index_to_pos[m[2]]
     IN /\ \/ (pf[1] = pt[1] /\ Abs(pf[2] - pt[2]) = 2)
           \/ (pf[2] = pt[2] /\ Abs(pf[1] - pt[1]) = 2)
        /\ Cell(b, pf[1], pf[2]) = 1
        /\ Cell(b, pt[1], pt[2]) = 0
        /\ Cell(b, (pf[1] + pt[1]) \div 2, (pf[2] + pt[2]) \div 2) = 1}

Expanded == lastExp.children # <<>>

ChildMoves == {lastExp.children[i].move : i \in 1..Len(lastExp.children)}

\* the cells (0-based) in which two boards differ
DiffCells(a, b) ==
  {p \in (0..(ROWS - 1)) \X (0..(COLS - 1)) :
     Cell(a, p[1], p[2]) # Cell(b, p[1], p[2])}

InvalidCells(b) ==
  {p \in (0..(ROWS - 1)) \X (0..(COLS - 1)) : Cell(b, p[1], p[2]) = -1}

IsGrid(b) == Len(b) = ROWS /\ \A i \in 1..ROWS : Len(b[i]) = COLS

Mid(m) ==
  <<(index_to_pos[m[1]][1] + index_to_pos[m[2]][1]) \div 2,
    (index_to_pos[m[1]][2] + index_to_pos[m[2]][2]) \div 2>>

\* child is parent after the jump m and nothing else
IsJumpOf(parent, child, m) ==
  /\ DiffCells(parent, child) = {index_to_pos[m[1]], Mid(m), index_to_pos[m[2]]}
  /\ Cardinality(DiffCells(parent, child)) = 3
  /\ Cell(child, index_to_pos[m[1]][1], index_to_pos[m[1]][2]) = 0
  /\ Cell(child, Mid(m)[1], Mid(m)[2]) = 0
  /\ Cell(child, index_to_pos[m[2]][1], index_to_pos[m[2]][2]) = 1

\* the board objects the run holds: the module-level board, the boards of
\* the frontier and of every treenodes, the last parent and its children
LiveBoards ==
  {board}
  \cup {frontier_queue[i].board : i \in 1..Len(frontier_queue)}
  \cup (IF prog = "bfs" THEN {frontier[i].ref : i \in 1..Len(frontier)} ELSE {})
  \cup {nodes[i].board : i \in 1..Len(nodes)}
  \cup (IF lastExp.parent = <<>> THEN {} ELSE {lastExp.parent})
  \cup {lastExp.children[i].board : i \in 1..Len(lastExp.children)}

\* the board objects waiting in the frontier
EnqueuedBoards ==
  IF prog = "test"
  THEN {frontier_queue[i].board : i \in 1..Len(frontier_queue)}
  ELSE IF prog = "bfs" THEN {frontier[i].ref : i \in 1..Len(frontier)}
  ELSE {nodes[frontier[i].id].board : i \in 1..Len(frontier)}

NoDuplicates(seq) == Cardinality(Range(seq)) = Len(seq)

\* -------------------------------------------------------------------------
\* C1 - move generation is sound and complete
\* -------------------------------------------------------------------------

\* C1: for every board a search expands, the moves generated for it (by
\* legal_moves in bfs.py and HDFS.py, by generate_successor_states in
\* test.py) are exactly the pairs of hole ids the rules allow: a peg at
\* from, an empty hole at to two cells away along one axis, a peg between;
\* none is missing and none touches an invalid cell.
C1_LegalMovesExact ==
  /\ lastExp.parent # <<>> =>
       /\ ChildMoves = RuleMoves(lastExp.before)
       /\ Range(legal_moves(lastExp.before)) = RuleMoves(lastExp.before)
  /\ dequeued # <<>> =>
       Range(legal_moves(dequeued[Len(dequeued)]))
         = RuleMoves(dequeued[Len(dequeued)])

\* an expansion that found moves in at least three of the four directions
C1_Witness ==
  /\ Expanded
  /\ Cardinality({<<index_to_pos[m[2]][1] - index_to_pos[m[1]][1],
                    index_to_pos[m[2]][2] - index_to_pos[m[1]][2]>> :
                    m \in ChildMoves}) >= 3

\* -------------------------------------------------------------------------
\* C2 - a move changes exactly three cells
\* -------------------------------------------------------------------------

\* C2: every child generated by an expansion differs from its parent in
\* exactly three cells (from and the jumped cell emptied, to filled), has one
\* peg less, is still a 7x7 grid, and has its 16 invalid cells where the
\* template has them.
C2_ThreeCellChange ==
  \A i \in 1..Len(lastExp.children) :
    LET child == Deref(heap, lastExp.children[i].board)
    IN /\ IsGrid(child)
       /\ IsJumpOf(lastExp.before, child, lastExp.children[i].move)
       /\ peg_count(child) = peg_count(lastExp.before) - 1
       /\ InvalidCells(child) = InvalidCells(InitialBoard)
       /\ Cardinality(InvalidCells(child)) = ROWS * COLS - NUM_HOLES

\* an expansion that made both a horizontal and a vertical jump
C2_Witness ==
  /\ \E m \in ChildMoves : index_to_pos[m[1]][1] = index_to_pos[m[2]][1]
  /\ \E m \in ChildMoves : index_to_pos[m[1]][2] = index_to_pos[m[2]][2]

\* -------------------------------------------------------------------------
\* C3 - expansion mutates nothing it was given
\* -------------------------------------------------------------------------

\* no two board objects share a row list, and no board uses a row twice
NoSharedRow ==
  /\ \A a \in LiveBoards : Cardinality(Range(a)) = Len(a)
  /\ \A a, b \in LiveBoards : a # b => Range(a) \cap Range(b) = {}

\* a step leaves every row list that existed before it as it was
RowsKept == \A a \in 1..Len(heap) : heap'[a] = heap[a]

\* C3: no step of a search changes a row list that existed before the step
\* (so the parent board, the boards of the other nodes and the module-level
\* board stay as they were), and no two boards ever share a row list.
C3_NoMutationNoSharing == [](NoSharedRow) /\ [][RowsKept]_vars

\* an expansion with several children while other boards wait
C3_Witness ==
  /\ Len(lastExp.children) >= 2
  /\ Cardinality(EnqueuedBoards) >= 3

\* -------------------------------------------------------------------------
\* C4 - breadth-first runs expand no board twice
\* -------------------------------------------------------------------------

\* C4: in a run of test.py BFS or of bfs.py BFS the sequence of boards
\* removed from the frontier holds no board twice.
C4_BfsNoDuplicate ==
  prog \in {"test", "bfs"} => NoDuplicates(dequeued)

\* a breadth-first expansion one of whose children was not enqueued
C4_Witness ==
  /\ prog \in {"test", "bfs"}
  /\ \E i \in 1..Len(lastExp.children) :
       lastExp.children[i].board \notin EnqueuedBoards

\* -------------------------------------------------------------------------
\* C5 - depth-first runs expand no board twice
\* -------------------------------------------------------------------------

\* C5: in a run of HDFS.py DFS the sequence of boards popped from the
\* frontier holds no board twice.
C5_DfsNoDuplicate ==
  prog = "hdfs" => NoDuplicates(dequeued)

\* -------------------------------------------------------------------------
\* C6 - the recorded moves lead to the recorded board
\* -------------------------------------------------------------------------

RECURSIVE LegalReplay(_, _)
\* the board after moves played from b, each move being one of legal_moves
\* where it is played; <<>> if one of them is not
LegalReplay(b, moves) ==
  IF moves = <<>> THEN b
  ELSE IF Head(moves) \in Range(legal_moves(b))
       THEN LegalReplay(ApplyMove(b, Head(moves)), Tail(moves))
       ELSE <<>>

\* the moves print_path shows for a path of treenodes (a step without a move
\* shows none)
PathMoves(ns, path) ==
  LET withMove == SelectSeq(path, LAMBDA id : ns[id].move # <<>>)
  IN AsSeq([i \in 1..Len(withMove) |-> ns[withMove[i]].move])

\* C6: for every node waiting in the frontier of test.py BFS (its move list)
\* and of HDFS.py DFS (the moves along its parent links), and for the node a
\* run reports as the goal, replaying the recorded moves from the initial
\* board, each move legal where it is replayed, gives exactly the node's board.
C6_PathRoundTrip ==
  /\ prog = "test" =>
       /\ \A i \in 1..Len(frontier_queue) :
            LegalReplay(Start, frontier_queue[i].moves)
              = Deref(heap, frontier_queue[i].board)
       /\ status = "Solved" =>
            LegalReplay(Start, result.moves) = dequeued[Len(dequeued)]
  /\ prog = "hdfs" =>
       /\ \A i \in 1..Len(frontier) :
            LegalReplay(Start, PathMoves(nodes, PathTo(nodes, frontier[i].id)))
              = Deref(heap, nodes[frontier[i].id].board)
       /\ status = "Solved" =>
            /\ nodes[result.path[1]].parent = 0
            /\ LegalReplay(Start, PathMoves(nodes, result.path))
                 = dequeued[Len(dequeued)]

\* a goal reported after at least three moves
C6_Witness ==
  /\ status = "Solved"
  /\ prog \in {"test", "hdfs"}
  /\ (Len(result.moves) >= 3 \/ Len(result.path) >= 4)

\* -------------------------------------------------------------------------
\* C7 - the solution of test.py BFS is a shortest one
\* -------------------------------------------------------------------------

RECURSIVE AfterMoves(_, _)
\* the boards that exactly k legal moves reach from the boards of level
AfterMoves(level, k) ==
  IF k = 0 THEN level
  ELSE AfterMoves(UNION {Successors(b) : b \in level}, k - 1)

\* C7: when test.py BFS reports a solution, its moves lead from the initial
\* board to a board satisfying the goal predicate, and no sequence of fewer
\* legal moves leads from the initial board to such a board.
C7_BfsMinimal ==
  (prog = "test" /\ status = "Solved") =>
    /\ LegalReplay(Start, result.moves) # <<>>
    /\ TestGoal(LegalReplay(Start, result.moves))
    /\ \A k \in 0..(Len(result.moves) - 1) :
         \A b \in AfterMoves({Start}, k) : ~TestGoal(b)

\* a solution of at least three moves reported by test.py BFS
C7_Witness ==
  /\ prog = "test"
  /\ status = "Solved"
  /\ Len(result.moves) >= 3
  /\ TestGoal(dequeued[Len(dequeued)])

\* -------------------------------------------------------------------------
\* C8 - the strict goal of test.py BFS
\* -------------------------------------------------------------------------

\* the number of moves played on the full board before the run's start
\* position: one peg goes with each move
MovesBefore == peg_count(InitialBoard) - peg_count(Start)

\* C8: whenever test.py BFS returns a move sequence, the sequence completes
\* a game of exactly 31 moves on the full board and the board it ends in has
\* exactly one peg, at (3,3), which is hole 17; a run that ends otherwise
\* returns None.
C8_StrictGoal ==
  prog = "test" =>
    /\ status = "Solved" =>
         LET last == LegalReplay(Start, result.moves)
         IN /\ result.tag = "moves"
            /\ MovesBefore + Len(result.moves) = 31
            /\ last = dequeued[Len(dequeued)]
            /\ {p \in (0..(ROWS - 1)) \X (0..(COLS - 1)) :
                  Cell(last, p[1], p[2]) = 1} = {<<3, 3>>}
            /\ index_to_pos[17] = <<3, 3>>
    /\ status = "Exhausted" => result.tag = "None"
    /\ result.tag = "moves" => status = "Solved"

\* test.py BFS returns a sequence from a position with several pegs
C8_Witness ==
  /\ prog = "test"
  /\ status = "Solved"
  /\ result.tag = "moves"
  /\ peg_count(Start) >= 3
  /\ Cell(dequeued[Len(dequeued)], 3, 3) = 1

\* -------------------------------------------------------------------------
\* C9 - "no solution" is reported only when there is none
\* -------------------------------------------------------------------------

\* the goal predicate a script tests
ActiveGoal(b) == IF prog = "test" THEN TestGoal(b) ELSE peg_count(b) = 1

\* C9: when a run reports "no solution" its frontier is empty, no board that
\* legal moves reach from the initial board satisfies the script's goal
\* predicate, every such board has been dequeued, and the report is an
\* ordinary result (None in test.py, the printed line in the other two).
C9_ExhaustedOnlyWhenNoGoal ==
  status = "Exhausted" =>
    /\ frontier_queue = <<>> /\ frontier = <<>>
    /\ \A b \in Reachable(Start) : ~ActiveGoal(b) /\ b \in Range(dequeued)
    /\ result.tag = (IF prog = "test" THEN "None" ELSE "no solution")

\* a run that reports "no solution" after dequeuing several boards
C9_Witness ==
  /\ status = "Exhausted"
  /\ Len(dequeued) >= 5

\* -------------------------------------------------------------------------
\* C10 - every run ends
\* -------------------------------------------------------------------------

\* the board objects waiting in the frontier, in its order
FrontierBoards ==
  IF prog = "test"
  THEN AsSeq([i \in 1..Len(frontier_queue) |-> frontier_queue[i].board])
  ELSE IF prog = "bfs"
  THEN AsSeq([i \in 1..Len(frontier) |-> frontier[i].ref])
  ELSE AsSeq([i \in 1..Len(frontier) |-> nodes[frontier[i].id].board])

\* a pass of the loop that goes on takes one board out of the frontier, at
\* the end the script takes it from, leaves the others waiting as they were
\* and puts in only boards that have one peg less than the board taken out
Progress ==
  (status = "Running" /\ status' = "Running") =>
    LET kept == Len(FrontierBoards) - 1
        k == peg_count(dequeued'[Len(dequeued')])
    IN /\ Len(dequeued') = Len(dequeued) + 1
       /\ kept >= 0
       /\ Len(FrontierBoards') >= kept
       /\ SubSeq(FrontierBoards', 1, kept)
            = (IF prog = "hdfs" THEN SubSeq(FrontierBoards, 1, kept)
               ELSE Tail(FrontierBoards))
       /\ \A i \in 1..kept :
            Deref(heap', FrontierBoards'[i])
              \in {Deref(heap, FrontierBoards[n]) : n \in {i, i + 1}}
       /\ \A i \in (kept + 1)..Len(FrontierBoards') :
            peg_count(Deref(heap', FrontierBoards'[i])) = k - 1

NoDequeueAfterEnd == status \in Terminal => (dequeued' = dequeued)

\* C10: each of the three search loops reaches Solved or Exhausted (every
\* run from a late-game position does, and every pass of every run, from the
\* initial board too, replaces one waiting board by boards of fewer pegs), and
\* once a run is Solved or Exhausted no further board is dequeued.
C10_Terminates ==
  /\ (peg_count(Start) <= MaxStartPegs /\ status = "Initializing")
       ~> (status \in Terminal)
  /\ [][Progress]_vars
  /\ [][NoDequeueAfterEnd]_vars

\* a run that has ended after at least ten passes of its loop
C10_Witness == status \in Terminal /\ Len(dequeued) >= 10

\* -------------------------------------------------------------------------
\* C11 - the order of legal_moves
\* -------------------------------------------------------------------------

\* the moves generated for the board expanded last, in the order generated
GeneratedMoves ==
  AsSeq([i \in 1..Len(lastExp.children) |-> lastExp.children[i].move])

\* the place of a jump among up, down, left, right, read off its two holes
DirectionRank(m) ==
  LET pf == index_to_pos[m[1]]
      pt == index_to_pos[m[2]]
  IN IF pt[1] < pf[1] THEN 1
     ELSE IF pt[1] > pf[1] THEN 2
     ELSE IF pt[2] < pf[2] THEN 3
     ELSE 4

\* C11 as stated: the moves generated for a board are in ascending order of
\* the `from` hole and, for one `from`, in ascending order of the `to` hole.
C11_AscendingFromThenTo ==
  \A i, j \in 1..Len(GeneratedMoves) :
    i < j =>
      \/ GeneratedMoves[i][1] < GeneratedMoves[j][1]
      \/ /\ GeneratedMoves[i][1] = GeneratedMoves[j][1]
         /\ GeneratedMoves[i][2] < GeneratedMoves[j][2]

\* C11 amended: the moves generated for a board are in ascending order of
\* the `from` hole and, for one `from`, in the order up, down, left, right
\* of the jump.
C11_AscendingFromThenDirection ==
  \A i, j \in 1..Len(GeneratedMoves) :
    i < j =>
      \/ GeneratedMoves[i][1] < GeneratedMoves[j][1]
      \/ /\ GeneratedMoves[i][1] = GeneratedMoves[j][1]
         /\ DirectionRank(GeneratedMoves[i]) < DirectionRank(GeneratedMoves[j])

\* an expansion in which one peg jumps down and also sideways
C11_Witness ==
  \E i, j \in 1..Len(GeneratedMoves) :
    /\ i < j
    /\ GeneratedMoves[i][1] = GeneratedMoves[j][1]
    /\ DirectionRank(GeneratedMoves[i]) = 2
    /\ DirectionRank(GeneratedMoves[j]) \in {3, 4}

\* -------------------------------------------------------------------------
\* C12, C13 - the order in which HDFS.py DFS takes the children of a node
\* -------------------------------------------------------------------------

\* HDFS.py has just expanded a node that has children
DfsExpanded == prog = "hdfs" /\ status = "Running" /\ Expanded

\* the board objects of the nodes on the stack, the next one to pop first
StackFromTop ==
  AsSeq([i \in 1..Len(frontier) |->
           nodes[frontier[Len(frontier) + 1 - i].id].board])

\* the number of legal moves on the board object ref
Mobility(ref) == Cardinality(RuleMoves(Deref(heap, ref)))

\* the place of the board object ref among the children generated last
GeneratedAt(ref) ==
  CHOOSE i \in 1..Len(lastExp.children) : lastExp.children[i].board = ref

\* the nodes on top of the stack are the children generated last
ChildrenOnTop ==
  /\ Len(frontier) >= Len(lastExp.children)
  /\ {StackFromTop[i] : i \in 1..Len(lastExp.children)}
       = {lastExp.children[i].board : i \in 1..Len(lastExp.children)}

\* a pass of the loop of HDFS.py takes the node on top of the stack
PopsTop ==
  (prog = "hdfs" /\ status = "Running" /\ Len(dequeued') > Len(dequeued)) =>
    dequeued'[Len(dequeued')] = Deref(heap, StackFromTop[1])

\* C12: after HDFS.py DFS has expanded a node with children, the children
\* are on top of the stack, the one to be popped next has the greatest
\* number of legal moves among them, the siblings below it follow in
\* descending number of legal moves, and every pass pops the top of the stack.
C12_MostMobileFirst ==
  /\ [](DfsExpanded =>
          /\ ChildrenOnTop
          /\ \A c \in 1..Len(lastExp.children) :
               Mobility(StackFromTop[1]) >= Mobility(lastExp.children[c].board)
          /\ \A i, j \in 1..Len(lastExp.children) :
               i < j => Mobility(StackFromTop[i]) >= Mobility(StackFromTop[j]))
  /\ [][PopsTop]_vars

\* an expansion by HDFS.py whose children differ in their number of moves
C12_Witness ==
  /\ DfsExpanded
  /\ \E i, j \in 1..Len(lastExp.children) :
       Mobility(lastExp.children[i].board) < Mobility(lastExp.children[j].board)

\* C13: after HDFS.py DFS has expanded a node, of two children with the same
\* number of legal moves the one generated earlier is nearer the top of the
\* stack, and so is popped first.
C13_TiesInGenerationOrder ==
  DfsExpanded =>
    /\ ChildrenOnTop
    /\ \A i, j \in 1..Len(lastExp.children) :
         (i < j /\ Mobility(StackFromTop[i]) = Mobility(StackFromTop[j]))
           => GeneratedAt(StackFromTop[i]) < GeneratedAt(StackFromTop[j])

\* an expansion by HDFS.py with two children of the same number of moves
C13_Witness ==
  /\ DfsExpanded
  /\ \E i, j \in 1..Len(lastExp.children) :
       /\ i < j
       /\ Mobility(lastExp.children[i].board)
            = Mobility(lastExp.children[j].board)

\* -------------------------------------------------------------------------
\* C14 - make_move accepts exactly the legal moves
\* -------------------------------------------------------------------------

\* the board of a game as a grid of -1, 0, 1, from the state dict of soloT.py
\* or the board lists of soloT2.py
GridOf(st, h, ref) ==
  IF prog = "soloT2" THEN Deref(h, ref)
  ELSE AsSeq([r1 \in 1..ROWS |->
         AsSeq([c1 \in 1..COLS |->
           IF <<r1 - 1, c1 - 1>> \in DOMAIN pos_to_index
           THEN (IF st[pos_to_index[<<r1 - 1, c1 - 1>>]] THEN 1 ELSE 0)
           ELSE -1])])

\* a call of make_move: it answers True exactly for the moves legal_moves()
\* lists, which are the moves the rules allow; then the board is the board
\* after the jump, and on False nothing of the game's state has changed
MakeMoveAnswer ==
  (prog \in Games /\ status = "Playing" /\ status' = "Answered") =>
    LET m == result'.moves
        before == GridOf(state, heap, board)
        after == GridOf(state', heap', board')
    IN /\ result'.tag \in BOOLEAN
       /\ result'.tag <=> (m \in Range(GameMoves))
       /\ result'.tag <=> (m \in RuleMoves(before))
       /\ result'.tag => after = ApplyMove(before, m)
       /\ ~result'.tag => (state' = state /\ heap' = heap /\ board' = board)

\* C14: in soloT.py and soloT2.py make_move(frm, to) returns True and applies
\* the jump if and only if (frm, to) is in legal_moves() for the current
\* board; for every other pair of integers it returns False and leaves the
\* board state unchanged.
C14_MakeMoveIffLegal == [][MakeMoveAnswer]_vars

\* make_move has refused a jump from a peg to an empty hole two cells away
\* whose middle hole is empty, after having accepted a move
C14_Witness ==
  /\ prog \in Games /\ status = "Answered"
  /\ result.tag = FALSE
  /\ GamePegs < NUM_HOLES - 1
  /\ result.moves \in HoleIds \X HoleIds
  /\ LET b == GridOf(state, heap, board)
         pf == index_to_pos[result.moves[1]]
         pt == index_to_pos[result.moves[2]]
     IN /\ Cell(b, pf[1], pf[2]) = 1
        /\ Cell(b, pt[1], pt[2]) = 0
        /\ pf[1] = pt[1] /\ Abs(pf[2] - pt[2]) = 2

\* -------------------------------------------------------------------------
\* C15 - the goal test of bfs.py and HDFS.py
\* -------------------------------------------------------------------------

\* the cells of b that hold a peg
PegCells(b) ==
  {p \in (0..(ROWS - 1)) \X (0..(COLS - 1)) : Cell(b, p[1], p[2]) = 1}

\* the run has just reported a goal: nothing was generated for that node
SolvedBeforeExpanding ==
  (prog \in {"bfs", "hdfs"} /\ status = "Running" /\ status' = "Solved") =>
    /\ heap' = heap
    /\ nodes' = nodes
    /\ Len(dequeued') = Len(dequeued) + 1

\* C15: bfs.py BFS and HDFS.py DFS are Solved exactly when the board just
\* taken from the frontier has one peg, wherever it is: every board dequeued
\* earlier has another number of pegs, a board with two or more pegs never
\* ends the run as Solved even if it has no legal move, and the goal is
\* tested before the node is expanded.
C15_PrimaryGoal ==
  /\ [](prog \in {"bfs", "hdfs"} =>
          /\ \A i \in 1..(Len(dequeued) - 1) :
               Cardinality(PegCells(dequeued[i])) # 1
          /\ dequeued # <<>> =>
               (status = "Solved"
                  <=> Cardinality(PegCells(dequeued[Len(dequeued)])) = 1))
  /\ [][SolvedBeforeExpanding]_vars

\* a run of bfs.py or HDFS.py that is Solved on a peg away from the centre,
\* after it dequeued a board of several pegs that has no legal move
C15_Witness ==
  /\ prog \in {"bfs", "hdfs"}
  /\ status = "Solved"
  /\ PegCells(dequeued[Len(dequeued)]) # {<<3, 3>>}
  /\ \E i \in 1..Len(dequeued) :
       /\ Cardinality(PegCells(dequeued[i])) >= 2
       /\ RuleMoves(dequeued[i]) = {}

\* -------------------------------------------------------------------------
\* C16 - the hole topology
\* -------------------------------------------------------------------------

\* p comes before q in a row-major scan
RowMajorBefore(p, q) == p[1] < q[1] \/ (p[1] = q[1] /\ p[2] < q[2])

\* the cells of the 7 x 7 grid that are not the corners' no-slot cells
ValidCells ==
  {p \in (0..(ROWS - 1)) \X (0..(COLS - 1)) :
     /\ (p[1] \in 2..4 \/ p[2] \in 2..4)}

\* C16: the topology built at start-up has exactly 33 holes with ids 1..33
\* in row-major order, index_to_pos and pos_to_index are inverse bijections
\* between the ids and the 33 valid cells, (3,3) is hole 17, the initial
\* board has a peg in every hole but 17 (32 pegs), and while a search runs
\* the module-level board stays the board built at start-up.
C16_Topology ==
  /\ NUM_HOLES = 33
  /\ DOMAIN index_to_pos = 1..33
  /\ \A i, j \in HoleIds :
       i < j => RowMajorBefore(index_to_pos[i], index_to_pos[j])
  /\ {index_to_pos[i] : i \in HoleIds} = ValidCells
  /\ Cardinality(ValidCells) = 33
  /\ DOMAIN pos_to_index = ValidCells
  /\ \A i \in HoleIds : pos_to_index[index_to_pos[i]] = i
  /\ \A p \in ValidCells : index_to_pos[pos_to_index[p]] = p
  /\ index_to_pos[17] = <<3, 3>>
  /\ \A p \in (0..(ROWS - 1)) \X (0..(COLS - 1)) :
       Cell(InitialBoard, p[1], p[2])
         = (IF p \notin ValidCells THEN -1
            ELSE IF pos_to_index[p] = 17 THEN 0 ELSE 1)
  /\ peg_count(InitialBoard) = 32
  /\ Start = InitialBoard

\* a search from the board built at start-up that has expanded several nodes
C16_Witness ==
  /\ Start = InitialBoard
  /\ status = "Running"
  /\ Len(dequeued) >= 5
  /\ Expanded

\* -------------------------------------------------------------------------
\* C17 - the frontier and the visited set belong to one call
\* -------------------------------------------------------------------------

\* the frontier and the visited set a call works with
FrontierSize ==
  IF prog = "test" THEN Len(frontier_queue) ELSE Len(frontier)

VisitedKeys ==
  IF prog = "test" THEN visited_boards
  ELSE IF prog = "bfs" THEN Range(explored)
  ELSE Range(chechked_boards)

\* C17: every call of a search entry point starts with a frontier holding
\* only the root and a visited set holding at most the root's key, so a
\* second call in the same process, after a completed or an interrupted first
\* call, dequeues the same boards in the same order as the first and, where
\* the first call ended, ends with the same outcome.
C17_SecondCallSame ==
  previous # <<>> =>
    /\ (status = "Running" /\ dequeued = <<>>) =>
         /\ FrontierSize = 1
         /\ VisitedKeys \subseteq {serialize(Start)}
    /\ \A i \in 1..Len(dequeued) :
         i <= Len(previous.dequeued) => dequeued[i] = previous.dequeued[i]
    /\ (status \in Terminal /\ previous.status \in Terminal) =>
         /\ dequeued = previous.dequeued
         /\ status = previous.status
         /\ result.tag = previous.tag
         /\ result.moves = previous.moves

\* -------------------------------------------------------------------------
\* C18 - breadth-first runs dequeue in level order
\* -------------------------------------------------------------------------

\* the peg counts of the boards waiting in the frontier, in its order
FrontierPegs ==
  AsSeq([i \in 1..Len(FrontierBoards) |->
           peg_count(Deref(heap, FrontierBoards[i]))])

\* the peg counts of the boards dequeued so far, in the order of dequeuing
DequeuedPegs ==
  AsSeq([i \in 1..Len(dequeued) |-> peg_count(dequeued[i])])

NonIncreasing(seq) ==
  \A i \in 1..(Len(seq) - 1) : seq[i] >= seq[i + 1]

\* the number of moves between the root and board b
Level(b) == peg_count(Start) - peg_count(b)

\* C18: in test.py BFS and bfs.py BFS the peg counts of the boards dequeued
\* one after the other never increase; when a board k+1 moves from the root
\* is dequeued, every board that k moves reach from the root has been
\* dequeued before it and none of them is still waiting; and the boards
\* waiting in the frontier have at most two distinct peg counts, which are
\* adjacent, the boards with more pegs waiting in front.
C18_LevelOrder ==
  (prog \in {"test", "bfs"} /\ previous = <<>>) =>
    LET waiting == FrontierPegs
        taken == DequeuedPegs
    IN /\ NonIncreasing(taken)
       /\ dequeued # <<>> =>
            LET last == dequeued[Len(dequeued)]
            IN /\ Level(last) >= 1 =>
                    AfterMoves({Start}, Level(last) - 1)
                      \subseteq Range(SubSeq(dequeued, 1, Len(dequeued) - 1))
               /\ Range(waiting) \subseteq {taken[Len(taken)],
                                            taken[Len(taken)] - 1}
       /\ NonIncreasing(waiting)
       /\ Cardinality(Range(waiting)) <= 2
       /\ \A m, n \in Range(waiting) : Abs(m - n) <= 1

\* a breadth-first run three levels below its root with boards of two peg
\* counts waiting
C18_Witness ==
  /\ prog \in {"test", "bfs"}
  /\ status = "Running"
  /\ Cardinality(Range(DequeuedPegs)) >= 3
  /\ Cardinality(Range(FrontierPegs)) = 2

\* -------------------------------------------------------------------------
\* C19 - bfs.py BFS and test.py BFS dequeue the same boards
\* -------------------------------------------------------------------------

\* the position in seq of its first board with exactly one peg, or the
\* length of seq when it has none
FirstOnePeg(seq) ==
  IF \E i \in 1..Len(seq) : peg_count(seq[i]) = 1
  THEN CHOOSE i \in 1..Len(seq) :
         /\ peg_count(seq[i]) = 1
         /\ \A j \in 1..(i - 1) : peg_count(seq[j]) # 1
  ELSE Len(seq)

\* seq up to its first board with exactly one peg, that board included
UpToOnePeg(seq) == SubSeq(seq, 1, FirstOnePeg(seq))

\* C19: started on the same board, bfs.py BFS and test.py BFS dequeue the
\* same boards in the same order, step for step, up to the first dequeued
\* board that has exactly one peg: while the second of the two runs, what it
\* has dequeued up to such a board is the beginning of what the first one
\* dequeued up to such a board, and once it has ended the two are equal.
C19_SameDequeueSequence ==
  (previous # <<>> /\ prog \in {"test", "bfs"}) =>
    LET mine == UpToOnePeg(dequeued)
        other == UpToOnePeg(previous.dequeued)
    IN /\ previous.prog # prog
       /\ Len(mine) <= Len(other)
       /\ mine = SubSeq(other, 1, Len(mine))
       /\ status \in Terminal => mine = other

\* both scripts have run to their end on a board from which each dequeued
\* at least ten boards, one of them with exactly one peg
C19_Witness ==
  /\ previous # <<>>
  /\ prog \in {"test", "bfs"}
  /\ status \in Terminal
  /\ Len(UpToOnePeg(dequeued)) >= 10
  /\ peg_count(dequeued[FirstOnePeg(dequeued)]) = 1
  /\ Len(previous.dequeued) # Len(dequeued)

\* -------------------------------------------------------------------------
\* C20 - depth and peg count go together
\* -------------------------------------------------------------------------

\* the number of parent links between node id and the root
ParentLinks(ns, id) == Len(PathTo(ns, id)) - 1

\* a node d moves below the root of the run holds a board b: counted from
\* the full board it is MovesBefore + d moves deep, it has that many pegs
\* less than the 32 of the full board, and it is at most 31 moves deep
DepthLocked(d, b) ==
  /\ peg_count(b) = 32 - (MovesBefore + d)
  /\ MovesBefore + d <= 31

\* every board the run holds: waiting, dequeued, just generated, or in a node
HeldBoards ==
  Range(dequeued)
    \cup {Deref(heap, FrontierBoards[i]) : i \in 1..Len(FrontierBoards)}
    \cup {Deref(heap, lastExp.children[i].board) :
            i \in 1..Len(lastExp.children)}
    \cup {Deref(heap, nodes[id].board) : id \in 1..Len(nodes)}

\* C20: in every search a node reached by d moves from the root (a move list
\* of length d in test.py, d parent links in HDFS.py) holds a board with
\* exactly 32 - d pegs, d counted from the full board; no node is deeper than
\* 31 moves, no board has zero pegs, and every solution reported, by test.py
\* (one peg at the centre) or by HDFS.py (one peg anywhere), has exactly 31
\* moves.
C20_DepthPegLock ==
  previous = <<>> =>
    /\ \A i \in 1..Len(frontier_queue) :
         DepthLocked(Len(frontier_queue[i].moves),
                     Deref(heap, frontier_queue[i].board))
    /\ \A id \in 1..Len(nodes) :
         DepthLocked(ParentLinks(nodes, id), Deref(heap, nodes[id].board))
    /\ \A b \in HeldBoards : peg_count(b) >= 1
    /\ (prog = "test" /\ status = "Solved") =>
         MovesBefore + Len(result.moves) = 31
    /\ (prog = "hdfs" /\ status = "Solved") =>
         /\ MovesBefore + ParentLinks(nodes, result.path[Len(result.path)]) = 31
         /\ MovesBefore + Len(PathMoves(nodes, result.path)) = 31

\* a search that has reported a solution, or holds a node, four moves below
\* its root
C20_Witness ==
  /\ previous = <<>>
  /\ \/ prog = "test" /\ status = "Solved" /\ Len(result.moves) >= 4
     \/ /\ prog = "hdfs" /\ status = "Solved"
        /\ Len(PathMoves(nodes, result.path)) >= 4

\* -------------------------------------------------------------------------
\* C21 - the two encodings of the interactive board are equivalent
\* -------------------------------------------------------------------------

\* C21: started from their initial states and fed the same sequence of
\* "<from> <to>" commands, soloT.py and soloT2.py accept and reject exactly
\* the same moves, return the same legal_moves list in the same order,
\* report the same peg count, stop with the same message, and after every
\* command hole i is occupied in the dict of soloT.py if and only if the
\* grid cell of hole i is 1 in soloT2.py.
C21_EncodingsEquivalent ==
  prog = Pair =>
    /\ status = "Answered" => result.tag[1] = result.tag[2]
    /\ legal_moves_soloT(state) = legal_moves(Deref(heap, board))
    /\ peg_count_soloT(state) = peg_count(Deref(heap, board))
    /\ \A i \in HoleIds :
         state[i] <=>
           HCell(heap, board, index_to_pos[i][1], index_to_pos[i][2]) = 1
    /\ DOMAIN state = HoleIds
    /\ status # "Differ"

\* both games have accepted the same move, after other moves, and each shows
\* several legal moves
C21_Witness ==
  /\ prog = Pair
  /\ status = "Answered"
  /\ result.tag = <<TRUE, TRUE>>
  /\ accepted >= 2
  /\ Len(legal_moves_soloT(state)) >= 2

\* -------------------------------------------------------------------------
\* C22 - the game loop
\* -------------------------------------------------------------------------

\* the statuses in which main_loop has left its loop on a command
LeftOnCommand == {"Quit", "Interrupted", "Crashed"}

\* the pegs go with the accepted moves, and main_loop is at its prompt, at
\* the win message or at the game-over message according to the board
PegsAndMessages ==
  prog \in Games =>
    /\ GamePegs = 32 - accepted
    /\ GamePegs >= 1
    /\ accepted <= 31
    /\ status = "Won" => GamePegs = 1
    /\ status = "GameOver" =>
         /\ GamePegs > 1
         /\ GameMoves = <<>>
         /\ RuleMoves(GridOf(state, heap, board)) = {}
    /\ status \in {"Playing"} \cup LeftOnCommand =>
         GamePegs > 1 /\ GameMoves # <<>>

\* a command that is not a move, and a move that is refused, leave the board
\* as it is
BoardKept ==
  (/\ prog \in Games /\ status = "Playing"
   /\ \/ status' \in {"Shown"} \cup LeftOnCommand
      \/ (status' = "Answered" /\ result'.tag = FALSE)) =>
    /\ GridOf(state', heap', board') = GridOf(state, heap, board)
    /\ state' = state /\ heap' = heap /\ board' = board
    /\ accepted' = accepted

\* going round, the loop stops with the win message exactly on one peg and
\* with the game-over message exactly on several pegs and no legal move
StopsExactly ==
  (prog \in Games /\ status \in {"Answered", "Shown"}) =>
    /\ status' \in {"Won", "GameOver", "Playing"}
    /\ status' = "Won" <=> GamePegs = 1
    /\ status' = "GameOver" <=> (GamePegs > 1 /\ GameMoves = <<>>)
    /\ GridOf(state', heap', board') = GridOf(state, heap, board)

\* C22: in main_loop of soloT.py and of soloT2.py, after any sequence of
\* commands the peg count is 32 minus the number of accepted moves and at
\* least 1, so at most 31 moves are accepted; the commands that are not
\* moves and the refused moves leave the board unchanged; and the loop stops
\* with the win message exactly when one peg remains and with the game-over
\* message exactly when more than one peg remains and legal_moves() is empty.
C22_GameLoop ==
  /\ [](PegsAndMessages)
  /\ [][BoardKept]_vars
  /\ [][StopsExactly]_vars

\* a game won with its 31st accepted move
C22_Witness ==
  /\ prog \in Games
  /\ status = "Won"
  /\ accepted = 31
  /\ GamePegs = 1

====
